---- MODULE Spec2Model ----
(***************************************************************************)
(* Model of `wash reg pull` / `wash reg push` (src/src/reg.rs), of the    *)
(* file effects of `wash par create` / `wash par insert` (src/src/par.rs)  *)
(* and of the process exit in src/src/main.rs.                             *)
(*                                                                         *)
(* One behaviour is a sequence of CLI invocations against one file system  *)
(* and one registry.  Each handler is split at its fallible steps, in the  *)
(* order of the source, so that the order of side effects can be stated.   *)
(* The three external crates (oci_distribution, wascap, provider_archive)  *)
(* are stubs: the registry stores what it is given, and the two parsers    *)
(* decide by the first byte of the buffer.                                 *)
(***************************************************************************)
EXTENDS Naturals, Sequences, FiniteSets

VARIABLES
    fs,           \* path -> None | Some(bytes): the files on disk
    registry,     \* tag -> None | Some(image): the images of repository ns/foo
    pushed,       \* history: tag -> None | Some([data, kind]), the file last pushed with success
    runs,         \* number of invocations started
    cmd,          \* the parsed command line of the current invocation
    pc,           \* position of the current invocation
    image,        \* `image`: the parsed Reference
    image_data,   \* `image_data`: None | Some(ImageData)
    digest,       \* handle_pull's `digest` after reformatting
    artifact,     \* handle_pull's `artifact` / handle_push's `artifact_buf`
    config_buf,   \* handle_push's `config_buf`
    kind,         \* None | Some(SupportedArtifacts) returned by validate_artifact
    auth,         \* None | Some(RegistryAuth) once resolved
    net,          \* transport calls made by the current invocation
    io,           \* file operations attempted by the current invocation
    done,         \* steps of the current invocation that completed successfully
    res,          \* the handler's result: None | Some([ok, msg])
    exit_code,    \* None | Some(code) once the process has exited
    stderr        \* what the process printed to the error stream

vars == <<fs, registry, pushed, runs, cmd, pc, image, image_data, digest, artifact,
          config_buf, kind, auth, net, io, done, res, exit_code, stderr>>

(***************************************************************************)
(* Option values                                                           *)
(***************************************************************************)
None == << >>
Some(x) == <<x>>
IsSome(o) == o # None
Unwrap(o) == o[1]
UnwrapOr(o, d) == IF o = None THEN d ELSE o[1]

(***************************************************************************)
(* Bounds                                                                  *)
(***************************************************************************)
MaxRuns == 2
MaxHexLen == 1

(***************************************************************************)
(* Constants of reg.rs                                                     *)
(***************************************************************************)
PROVIDER_ARCHIVE_MEDIA_TYPE == "application/vnd.wascc.provider.archive.layer.v1+par"
PROVIDER_ARCHIVE_CONFIG_MEDIA_TYPE == "application/vnd.wascc.provider.archive.config"
PROVIDER_ARCHIVE_FILE_EXTENSION == ".par.gz"
WASM_MEDIA_TYPE == "application/vnd.module.wasm.content.layer.v1+wasm"
WASM_CONFIG_MEDIA_TYPE == "application/vnd.wascc.actor.archive.config"
WASM_FILE_EXTENSION == ".wasm"

PULL_LATEST_MSG ==
    "Pulling artifacts with tag 'latest' is prohibited. This can be overriden with a flag"
PUSH_LATEST_MSG ==
    "Pushing artifacts with tag 'latest' is prohibited. This can be overriden with a flag"
DIGEST_MSG == "Image digest did not match provided digest, aborting"
UNSUPPORTED_MSG == "Unsupported artifact type"
\* messages of errors that come from outside reg.rs, passed on by `?`
TRANSPORT_MSG == "<transport error>"
RUNTIME_MSG == "<tokio runtime error>"
IO_MSG == "<io error>"

Ok == [ok |-> TRUE, msg |-> ""]
Err(m) == [ok |-> FALSE, msg |-> m]

(***************************************************************************)
(* Strings that the code inspects are sequences of characters.             *)
(***************************************************************************)
Sha256Prefix == <<"s", "h", "a", "2", "5", "6", ":">>

StartsWith(s, p) == Len(s) >= Len(p) /\ SubSeq(s, 1, Len(p)) = p

\* variant: the prefix is inserted without looking at the digest
ReformatDigest_Always(d) ==
    IF d = None THEN None ELSE Some(Sha256Prefix \o Unwrap(d))

\* reg.rs 174-178: `Some(d) if d.starts_with("sha256:") => Some(d)`,
\* `Some(d) => Some(format!("sha256:{}", d))`, `None => None`
ReformatDigest(d) ==
    IF d = None THEN None
    ELSE IF StartsWith(Unwrap(d), Sha256Prefix) THEN d
    ELSE Some(Sha256Prefix \o Unwrap(d))

\* variant: the two options are compared as they are
DigestCheck_Strict(d, image_digest) ==
    IF d # image_digest THEN Err(DIGEST_MSG) ELSE Ok

\* reg.rs 180-185: the match on (digest, image_data.digest)
DigestCheck(d, image_digest) ==
    IF IsSome(d) /\ IsSome(image_digest) /\ Unwrap(d) # Unwrap(image_digest)
    THEN Err(DIGEST_MSG)
    ELSE Ok

(***************************************************************************)
(* Artifact classification                                                 *)
(***************************************************************************)
\* wascap::wasm::extract_claims, stubbed by a marker byte:
\* "C" a module with claims, "N" a module without, "B" a buffer both parsers
\* accept, "M" a module without claims that also loads as an archive.
extract_claims(bytes) ==
    IF bytes = << >> THEN "Err"
    ELSE IF bytes[1] \in {"C", "B"} THEN "OkSome"
    ELSE IF bytes[1] \in {"N", "M"} THEN "OkNone"
    ELSE "Err"

\* ProviderArchive::try_load, stubbed by a marker byte ("A", "B", "M" load)
try_load(bytes) ==
    IF bytes # << >> /\ bytes[1] \in {"A", "B", "M"} THEN "Ok" ELSE "Err"

\* variant: a module without a claims token qualifies
validate_actor_module_NoClaimsOk(bytes) ==
    CASE extract_claims(bytes) = "OkSome" -> "Ok"
      [] extract_claims(bytes) = "OkNone" -> "Ok"
      [] OTHER -> "Err"

\* reg.rs 241-250
validate_actor_module(bytes) ==
    CASE extract_claims(bytes) = "OkSome" -> "Ok"
      [] extract_claims(bytes) = "OkNone" -> "Err"
      [] OTHER -> "Err"

\* reg.rs 254-262
validate_provider_archive(bytes) ==
    IF try_load(bytes) = "Ok" THEN "Ok" ELSE "Err"

\* reg.rs 226-237
\* Some("Wasm") | Some("Par") | None for Err("Unsupported artifact type")
validate_artifact(bytes) ==
    IF validate_actor_module(bytes) = "Ok" THEN Some("Wasm")
    ELSE IF validate_provider_archive(bytes) = "Ok" THEN Some("Par")
    ELSE None

(***************************************************************************)
(* References.  Reference::from_str is external; on the command lines of   *)
(* the model it gives the results below (a reference needs a slash, the    *)
(* tag is what follows the colon after it, and is optional).               *)
(***************************************************************************)
Urls == {"not a reference", "reg.io/ns/foo", "reg.io/ns/foo:latest", "reg.io/ns/foo:v1"}
Tags == {"latest", "v1"}

\* None for Err (malformed), else Some(Reference)
ParseReference(url) ==
    CASE url = "reg.io/ns/foo" ->
            Some([registry |-> "reg.io", repository |-> "ns/foo", tag |-> None])
      [] url = "reg.io/ns/foo:latest" ->
            Some([registry |-> "reg.io", repository |-> "ns/foo", tag |-> Some("latest")])
      [] url = "reg.io/ns/foo:v1" ->
            Some([registry |-> "reg.io", repository |-> "ns/foo", tag |-> Some("v1")])
      [] OTHER -> None

NoImage == [registry |-> "", repository |-> "", tag |-> None]

\* `image.repository().split('/').collect::<Vec<_>>().pop().unwrap()`
LastSegment(repository) ==
    CASE repository = "ns/foo" -> "foo"
      [] OTHER -> repository

\* reg.rs 194-197
FileExtension(k) ==
    IF k = "Par" THEN PROVIDER_ARCHIVE_FILE_EXTENSION ELSE WASM_FILE_EXTENSION

\* format!("{}{}", last segment, file_extension)
DefaultOutfile(repository, k) ==
    CASE LastSegment(repository) = "foo" /\ FileExtension(k) = ".wasm" -> "foo.wasm"
      [] LastSegment(repository) = "foo" /\ FileExtension(k) = ".par.gz" -> "foo.par.gz"
      [] OTHER -> "out.bin"

\* reg.rs 138: `image.tag().unwrap_or("latest")`
PullTag(img) == Some(UnwrapOr(img.tag, "latest"))

\* variant: push defaults an absent tag as pull does
PushTag_Defaulted(img) == Some(UnwrapOr(img.tag, "latest"))

\* reg.rs 267: `image.tag().unwrap()`; None stands for the panic of unwrap
PushTag(img) == img.tag

\* variant: the override flag is not consulted
LatestProhibited_IgnoresFlag(tag, allow_latest) == tag = "latest"

\* reg.rs 138, 267: `== "latest" && !cmd.allow_latest`
LatestProhibited(tag, allow_latest) == tag = "latest" /\ ~allow_latest

\* the tag the transport addresses: a reference without a tag names "latest"
TransportTag(img) == UnwrapOr(img.tag, "latest")

(***************************************************************************)
(* Files                                                                   *)
(***************************************************************************)
BadPath == "nodir/out.bin"      \* a path whose directory does not exist
ArtifactPaths ==
    {"actor.wasm", "prov.par.gz", "both.bin", "noclaims.wasm", "m.bin", "junk.bin",
     "missing.bin", "out.bin"}
ConfigPaths == {"config.json", "missing.bin"}
OutputPaths == {"out.bin", BadPath}
Paths ==
    ArtifactPaths \cup ConfigPaths \cup OutputPaths \cup {"foo.wasm", "foo.par.gz", "junk.par", "missing.par"}

InitFs ==
    [p \in Paths |->
        CASE p = "actor.wasm" -> Some(<<"C", "x">>)
          [] p = "prov.par.gz" -> Some(<<"A", "x">>)
          [] p = "both.bin" -> Some(<<"B">>)
          [] p = "noclaims.wasm" -> Some(<<"N">>)
          [] p = "m.bin" -> Some(<<"M">>)
          [] p = "junk.bin" -> Some(<<"x">>)
          [] p = "config.json" -> Some(<<"{", "k", "}">>)
          [] p = "foo.wasm" -> Some(<<"x", "x">>)
          [] OTHER -> None]

\* File::open + read_to_end: None for Err
ReadFile(p) == fs[p]
\* File::create succeeds unless the directory is missing
CanCreate(p) == p # BadPath

(***************************************************************************)
(* The registry: images of ns/foo by tag                                   *)
(***************************************************************************)
HexChars == {"a", "b"}
HexStrings == UNION {[1..n -> HexChars] : n \in 0..MaxHexLen}
RegDigests == {Sha256Prefix \o <<c>> : c \in HexChars}

Layer(d, m) == [data |-> d, media_type |-> m]
ImageData(l, d) == [layers |-> l, digest |-> d]

InitImages ==
    { None,
      Some(ImageData(<<Layer(<<"C">>, WASM_MEDIA_TYPE), Layer(<<"x">>, WASM_MEDIA_TYPE)>>,
                     Some(Sha256Prefix \o <<"a">>))),
      Some(ImageData(<<Layer(<<"A">>, PROVIDER_ARCHIVE_MEDIA_TYPE)>>, None)),
      Some(ImageData(<<Layer(<<"x">>, WASM_MEDIA_TYPE), Layer(<<"C">>, WASM_MEDIA_TYPE)>>,
                     Some(Sha256Prefix \o <<"b">>))),
      Some(ImageData(<<Layer(<<"C">>, "text/plain")>>, Some(Sha256Prefix \o <<"a">>))) }

\* the digest the registry assigns to what it stores (a stand-in for the hash)
RegistryDigest(layers) ==
    Sha256Prefix \o <<IF layers[1].data # << >> /\ layers[1].data[1] \in {"C", "N", "A"}
                      THEN "a" ELSE "b">>

\* Client::pull: None for Err; the layers must have an accepted media type
ClientPull(tag, accepted) ==
    IF registry[tag] = None THEN None
    ELSE IF \E i \in 1..Len(Unwrap(registry[tag]).layers) :
                Unwrap(registry[tag]).layers[i].media_type \notin accepted
         THEN None
         ELSE registry[tag]

\* variant: the layers are joined with a separator
RECURSIVE Flatten_Joined(_)
Flatten_Joined(layers) ==
    IF layers = << >> THEN << >>
    ELSE Head(layers).data \o <<"/">> \o Flatten_Joined(Tail(layers))

\* `.iter().map(|l| l.data.clone()).flatten().collect()`
RECURSIVE Flatten(_)
Flatten(layers) ==
    IF layers = << >> THEN << >> ELSE Head(layers).data \o Flatten(Tail(layers))

(***************************************************************************)
(* Command lines                                                           *)
(***************************************************************************)
DigestHeads == {<< >>, Sha256Prefix, <<"s", "h", "a", "2", "5", "6">>}
DigestArgs == {h \o b : h \in DigestHeads, b \in HexStrings}
Users == {None, Some("user")}
Passwords == {None, Some("secret")}

PullCommands ==
    [op : {"pull"}, url : Urls, user : Users, password : Passwords,
     output : {None} \cup {Some(p) : p \in OutputPaths},
     digest : {None} \cup {Some(d) : d \in DigestArgs},
     allow_latest : BOOLEAN]

PushCommands ==
    [op : {"push"}, url : Urls, artifact : ArtifactPaths, user : Users, password : Passwords,
     config : {None} \cup {Some(p) : p \in ConfigPaths},
     allow_latest : BOOLEAN]

NoCmd == [op |-> "none"]

\* variant: a user alone is enough for Basic, with an empty password
ResolveAuth_UserOnly(user, password) ==
    IF IsSome(user)
    THEN [type |-> "Basic", user |-> Unwrap(user), password |-> UnwrapOr(password, "")]
    ELSE [type |-> "Anonymous"]

\* reg.rs 153-156 and 318-321
ResolveAuth(user, password) ==
    IF IsSome(user) /\ IsSome(password)
    THEN [type |-> "Basic", user |-> Unwrap(user), password |-> Unwrap(password)]
    ELSE [type |-> "Anonymous"]

(***************************************************************************)
(* Process exit (main.rs 82-91; a panic unwinds out of main)               *)
(***************************************************************************)
EXIT_SUCCESS == 0
EXIT_FAILURE == 1
PANIC_EXIT_CODE == 101
PANIC_MSG == "thread 'main' panicked at 'called `Result::unwrap()` / `Option::unwrap()`'"

persistent == <<fs, registry, pushed>>
locals == <<image, image_data, digest, artifact, config_buf, kind, auth>>
process == <<exit_code, stderr>>

Return(r) == res' = Some(r) /\ pc' = "returned"
Step(name, next) == done' = Append(done, name) /\ pc' = next /\ UNCHANGED res

(***************************************************************************)
(* Init: nothing has run; the registry holds one of the initial images     *)
(* under both tags.                                                        *)
(***************************************************************************)
Init ==
    /\ fs = InitFs
    /\ \E i \in InitImages : registry = [t \in Tags |-> i]
    /\ pushed = [t \in Tags |-> None]
    /\ runs = 0
    /\ cmd = NoCmd
    /\ pc = "idle"
    /\ image = NoImage
    /\ image_data = None
    /\ digest = None
    /\ artifact = << >>
    /\ config_buf = << >>
    /\ kind = None
    /\ auth = None
    /\ net = << >>
    /\ io = << >>
    /\ done = << >>
    /\ res = None
    /\ exit_code = None
    /\ stderr = << >>

\* main.rs 68-76 and reg.rs 128-133: the process starts with command line c
Start(c) ==
    /\ pc = "idle"
    /\ runs' = runs + 1
    /\ cmd' = c
    /\ pc' = IF c.op = "pull" THEN "pull_parse" ELSE "push_parse"
    /\ UNCHANGED <<persistent, locals, net, io, done, res, process>>

(***************************************************************************)
(* handle_pull                                                             *)
(***************************************************************************)
\* reg.rs 136: `cmd.url.parse().unwrap()`
PullParse ==
    /\ pc = "pull_parse"
    /\ IF ParseReference(cmd.url) = None
       THEN pc' = "panicked" /\ UNCHANGED <<image, done, res>>
       ELSE image' = Unwrap(ParseReference(cmd.url)) /\ Step("parse", "pull_guard")
    /\ UNCHANGED <<persistent, runs, cmd, image_data, digest, artifact, config_buf, kind,
                   auth, net, io, process>>

\* reg.rs 138-143
PullGuard ==
    /\ pc = "pull_guard"
    /\ IF LatestProhibited(Unwrap(PullTag(image)), cmd.allow_latest)
       THEN Return(Err(PULL_LATEST_MSG)) /\ UNCHANGED done
       ELSE Step("guard", "pull_transport")
    /\ UNCHANGED <<persistent, runs, cmd, locals, net, io, process>>

\* the call `client.pull(&image, &auth, vec![..])` and what it returned
PullCall(result) ==
    [op |-> "pull", image |-> image, auth |-> ResolveAuth(cmd.user, cmd.password),
     accepted |-> <<PROVIDER_ARCHIVE_MEDIA_TYPE, WASM_MEDIA_TYPE>>, result |-> result]

\* reg.rs 145-169: client, credentials, runtime, `client.pull(..)?`
PullTransport ==
    /\ pc = "pull_transport"
    /\ auth' = Some(ResolveAuth(cmd.user, cmd.password))
    /\ \E outcome \in {"runtime_err", "transport_err", "answer"} :
         CASE outcome = "runtime_err" ->
                /\ Return(Err(RUNTIME_MSG))
                /\ UNCHANGED <<net, image_data, done>>
           [] outcome = "transport_err" ->
                /\ net' = Append(net, PullCall(Err(TRANSPORT_MSG)))
                /\ Return(Err(TRANSPORT_MSG))
                /\ UNCHANGED <<image_data, done>>
           [] OTHER ->
                /\ IF ClientPull(TransportTag(image),
                                 {PROVIDER_ARCHIVE_MEDIA_TYPE, WASM_MEDIA_TYPE}) = None
                   THEN /\ net' = Append(net, PullCall(Err(TRANSPORT_MSG)))
                        /\ Return(Err(TRANSPORT_MSG))
                        /\ UNCHANGED <<image_data, done>>
                   ELSE /\ net' = Append(net, PullCall(Ok))
                        /\ image_data' = ClientPull(TransportTag(image),
                                 {PROVIDER_ARCHIVE_MEDIA_TYPE, WASM_MEDIA_TYPE})
                        /\ Step("transport", "pull_verify")
    /\ UNCHANGED <<persistent, runs, cmd, image, digest, artifact, config_buf, kind, io,
                   process>>

\* reg.rs 173-185
PullVerify ==
    /\ pc = "pull_verify"
    /\ digest' = ReformatDigest(cmd.digest)
    /\ IF DigestCheck(ReformatDigest(cmd.digest), Unwrap(image_data).digest).ok
       THEN Step("verify", "pull_classify")
       ELSE Return(DigestCheck(ReformatDigest(cmd.digest), Unwrap(image_data).digest))
            /\ UNCHANGED done
    /\ UNCHANGED <<persistent, runs, cmd, image, image_data, artifact, config_buf, kind,
                   auth, net, io, process>>

\* variant: the output file is created before the artifact is validated
PullClassify_CreatesFirst ==
    /\ pc = "pull_classify"
    /\ artifact' = Flatten(Unwrap(image_data).layers)
    /\ kind' = validate_artifact(Flatten(Unwrap(image_data).layers))
    /\ fs' = [fs EXCEPT ![UnwrapOr(cmd.output, "out.bin")] = Some(<< >>)]
    /\ IF validate_artifact(Flatten(Unwrap(image_data).layers)) = None
       THEN Return(Err(UNSUPPORTED_MSG)) /\ UNCHANGED done
       ELSE Step("classify", "pull_write")
    /\ UNCHANGED <<registry, pushed, runs, cmd, image, image_data, digest, config_buf, auth,
                   net, io, process>>

\* reg.rs 187-197
PullClassify ==
    /\ pc = "pull_classify"
    /\ artifact' = Flatten(Unwrap(image_data).layers)
    /\ kind' = validate_artifact(Flatten(Unwrap(image_data).layers))
    /\ IF validate_artifact(Flatten(Unwrap(image_data).layers)) = None
       THEN Return(Err(UNSUPPORTED_MSG)) /\ UNCHANGED done
       ELSE Step("classify", "pull_write")
    /\ UNCHANGED <<persistent, runs, cmd, image, image_data, digest, config_buf, auth,
                   net, io, process>>

\* reg.rs 200-211
Outfile == UnwrapOr(cmd.output, DefaultOutfile(image.repository, Unwrap(kind)))

IoEvent(op, path, ok) == [op |-> op, path |-> path, ok |-> ok]

\* File::create followed by write_all(bytes): Some(n) when write_all failed
\* after n bytes (n < Len(bytes)), None when it wrote them all
WriteFailures(bytes) == {None} \cup {Some(n) : n \in 0..(Len(bytes) - 1)}
Written(bytes, failure) ==
    IF failure = None THEN bytes ELSE SubSeq(bytes, 1, Unwrap(failure))

\* reg.rs 212-221: File::create truncates; write_all may fail after any
\* number of bytes, which stay in the file
PullWrite ==
    /\ pc = "pull_write"
    /\ IF ~CanCreate(Outfile)
       THEN /\ io' = Append(io, IoEvent("create", Outfile, FALSE))
            /\ Return(Err(IO_MSG))
            /\ UNCHANGED <<fs, done>>
       ELSE \E failure \in WriteFailures(artifact) :
            /\ fs' = [fs EXCEPT ![Outfile] = Some(Written(artifact, failure))]
            /\ io' = io \o <<IoEvent("create", Outfile, TRUE),
                             IoEvent("write", Outfile, failure = None)>>
            /\ IF failure = None
               THEN done' = Append(done, "write") /\ Return(Ok)
               ELSE Return(Err(IO_MSG)) /\ UNCHANGED done
    /\ UNCHANGED <<registry, pushed, runs, cmd, locals, net, process>>

(***************************************************************************)
(* handle_push                                                             *)
(***************************************************************************)
\* reg.rs 265: `cmd.url.parse().unwrap()`
PushParse ==
    /\ pc = "push_parse"
    /\ IF ParseReference(cmd.url) = None
       THEN pc' = "panicked" /\ UNCHANGED <<image, done, res>>
       ELSE image' = Unwrap(ParseReference(cmd.url)) /\ Step("parse", "push_guard")
    /\ UNCHANGED <<persistent, runs, cmd, image_data, digest, artifact, config_buf, kind,
                   auth, net, io, process>>

\* reg.rs 267-272: `image.tag().unwrap()` panics on a reference without a tag
PushGuard ==
    /\ pc = "push_guard"
    /\ IF PushTag(image) = None
       THEN pc' = "panicked" /\ UNCHANGED <<done, res>>
       ELSE IF LatestProhibited(Unwrap(PushTag(image)), cmd.allow_latest)
            THEN Return(Err(PUSH_LATEST_MSG)) /\ UNCHANGED done
            ELSE Step("guard", "push_config")
    /\ UNCHANGED <<persistent, runs, cmd, locals, net, io, process>>

EMPTY_CONFIG == <<"{", "}">>

\* reg.rs 274-285
PushLoadConfig ==
    /\ pc = "push_config"
    /\ IF cmd.config = None
       THEN /\ config_buf' = EMPTY_CONFIG
            /\ Step("config", "push_artifact")
            /\ UNCHANGED io
       ELSE /\ io' = Append(io, IoEvent("open", Unwrap(cmd.config),
                                        IsSome(ReadFile(Unwrap(cmd.config)))))
            /\ IF ReadFile(Unwrap(cmd.config)) = None
               THEN Return(Err(IO_MSG)) /\ UNCHANGED <<config_buf, done>>
               ELSE /\ config_buf' = Unwrap(ReadFile(Unwrap(cmd.config)))
                    /\ Step("config", "push_artifact")
    /\ UNCHANGED <<persistent, runs, cmd, image, image_data, digest, artifact, kind, auth,
                   net, process>>

\* reg.rs 287-289
PushLoadArtifact ==
    /\ pc = "push_artifact"
    /\ io' = Append(io, IoEvent("open", cmd.artifact, IsSome(ReadFile(cmd.artifact))))
    /\ IF ReadFile(cmd.artifact) = None
       THEN Return(Err(IO_MSG)) /\ UNCHANGED <<artifact, done>>
       ELSE artifact' = Unwrap(ReadFile(cmd.artifact)) /\ Step("artifact", "push_classify")
    /\ UNCHANGED <<persistent, runs, cmd, image, image_data, digest, config_buf, kind,
                   auth, net, process>>

\* variant: an archive layer goes with the actor config type
MediaTypes_Mixed(k) ==
    IF k = "Wasm" THEN <<WASM_MEDIA_TYPE, WASM_CONFIG_MEDIA_TYPE>>
    ELSE <<PROVIDER_ARCHIVE_MEDIA_TYPE, WASM_CONFIG_MEDIA_TYPE>>

\* reg.rs 295-299: (artifact_media_type, config_media_type)
MediaTypes(k) ==
    IF k = "Wasm" THEN <<WASM_MEDIA_TYPE, WASM_CONFIG_MEDIA_TYPE>>
    ELSE <<PROVIDER_ARCHIVE_MEDIA_TYPE, PROVIDER_ARCHIVE_CONFIG_MEDIA_TYPE>>

\* variant: an unsupported artifact is pushed as a module
PushClassify_Fallback ==
    /\ pc = "push_classify"
    /\ kind' = Some(UnwrapOr(validate_artifact(artifact), "Wasm"))
    /\ image_data' =
         Some(ImageData(<<Layer(artifact,
                                MediaTypes(UnwrapOr(validate_artifact(artifact), "Wasm"))[1])>>,
                        None))
    /\ Step("classify", "push_transport")
    /\ UNCHANGED <<persistent, runs, cmd, image, digest, artifact, config_buf, auth, net,
                   io, process>>

\* reg.rs 291-308
PushClassify ==
    /\ pc = "push_classify"
    /\ kind' = validate_artifact(artifact)
    /\ IF validate_artifact(artifact) = None
       THEN Return(Err(UNSUPPORTED_MSG)) /\ UNCHANGED <<image_data, done>>
       ELSE /\ image_data' =
                 Some(ImageData(<<Layer(artifact,
                                        MediaTypes(Unwrap(validate_artifact(artifact)))[1])>>,
                                None))
            /\ Step("classify", "push_transport")
    /\ UNCHANGED <<persistent, runs, cmd, image, digest, artifact, config_buf, auth, net,
                   io, process>>

\* the call `client.push(&image, &image_data, &config_buf, config_media_type, &auth, None)`
\* and what it returned
PushCall(result) ==
    [op |-> "push", image |-> image, image_data |-> Unwrap(image_data),
     config |-> config_buf, config_media_type |-> MediaTypes(Unwrap(kind))[2],
     auth |-> ResolveAuth(cmd.user, cmd.password), result |-> result]

\* Client::push on a registry that stores what it is given
ClientPush(tag, data) ==
    [registry EXCEPT ![tag] = Some(ImageData(data.layers, Some(RegistryDigest(data.layers))))]

\* reg.rs 310-347: client, credentials, runtime, `client.push(..)?`
PushTransport ==
    /\ pc = "push_transport"
    /\ auth' = Some(ResolveAuth(cmd.user, cmd.password))
    /\ \E outcome \in {"runtime_err", "transport_err", "answer"} :
         CASE outcome = "runtime_err" ->
                /\ Return(Err(RUNTIME_MSG))
                /\ UNCHANGED <<net, registry, pushed, done>>
           [] outcome = "transport_err" ->
                /\ net' = Append(net, PushCall(Err(TRANSPORT_MSG)))
                /\ Return(Err(TRANSPORT_MSG))
                /\ UNCHANGED <<registry, pushed, done>>
           [] OTHER ->
                /\ net' = Append(net, PushCall(Ok))
                /\ registry' = ClientPush(TransportTag(image), Unwrap(image_data))
                /\ pushed' = [pushed EXCEPT ![TransportTag(image)] =
                                 Some([data |-> Unwrap(fs[cmd.artifact]), kind |-> Unwrap(kind)])]
                /\ done' = Append(done, "transport")
                /\ Return(Ok)
    /\ UNCHANGED <<fs, runs, cmd, image, image_data, digest, artifact, config_buf, kind,
                   io, process>>

(***************************************************************************)
(* main                                                                    *)
(***************************************************************************)
\* main.rs 82-91
MainExit ==
    /\ pc = "returned"
    /\ pc' = "exited"
    /\ exit_code' = Some(IF Unwrap(res).ok THEN EXIT_SUCCESS ELSE EXIT_FAILURE)
    /\ stderr' = IF Unwrap(res).ok THEN << >> ELSE <<"Error: ", Unwrap(res).msg>>
    /\ UNCHANGED <<persistent, runs, cmd, locals, net, io, done, res>>

\* an `unwrap()` on Err/None: the panic unwinds, main never reaches its match
Panic ==
    /\ pc = "panicked"
    /\ pc' = "exited"
    /\ exit_code' = Some(PANIC_EXIT_CODE)
    /\ stderr' = <<PANIC_MSG>>
    /\ UNCHANGED <<persistent, runs, cmd, locals, net, io, done, res>>

StartPull == \E c \in PullCommands : Start(c)
StartPush == \E c \in PushCommands : Start(c)

\* One invocation of `wash reg pull` or `wash reg push`
Next ==
    \/ StartPull
    \/ StartPush
    \/ PullParse
    \/ PullGuard
    \/ PullTransport
    \/ PullVerify
    \/ PullClassify
    \/ PullWrite
    \/ PushParse
    \/ PushGuard
    \/ PushLoadConfig
    \/ PushLoadArtifact
    \/ PushClassify
    \/ PushTransport
    \/ MainExit
    \/ Panic

Spec == Init /\ [][Next]_vars

(***************************************************************************)
(* `wash par create` and `wash par insert` (par.rs): the other invocations *)
(* of the binary that write files.  Each handler is one step.  The archive *)
(* codec is the stub of try_load: an archive is the marker "A" followed by *)
(* its libraries.  Key extraction (crate::keys) and add_library may fail.  *)
(***************************************************************************)
KEYS_MSG == "<keys error>"
PAR_MSG == "<provider archive error>"

ParBinaries == {"junk.bin", "missing.bin"}
ParArchives == {"prov.par.gz", "out.bin", "junk.bin", "missing.bin"}

ParCreateCommands ==
    [op : {"par_create"}, binary : ParBinaries,
     output : {None, Some("out.bin"), Some(BadPath)}]

ParInsertCommands ==
    [op : {"par_insert"}, archive : ParArchives, binary : ParBinaries]

\* par.rs 161-172: format!("{}.par", file_stem of cmd.binary); the stem is the
\* file name, without its directory, up to its last dot
DefaultParOutput(binary) ==
    CASE binary = "junk.bin" -> "junk.par"
      [] binary = "missing.bin" -> "missing.par"
      [] binary = "actor.wasm" -> "actor.par"
      [] binary = "prov.par.gz" -> "prov.par.par"
      [] binary = "both.bin" -> "both.par"
      [] binary = "noclaims.wasm" -> "noclaims.par"
      [] binary = "m.bin" -> "m.par"
      [] binary = "out.bin" -> "out.par"
      [] binary = "nodir/out.bin" -> "out.par"
      [] binary = "config.json" -> "config.par"
      [] binary = "foo.wasm" -> "foo.par"
      [] binary = "foo.par.gz" -> "foo.par.par"
      [] binary = "junk.par" -> "junk.par"
      [] binary = "missing.par" -> "missing.par"

\* ProviderArchive::new + add_library + write: what try_load accepts
NewArchive(lib) == <<"A">> \o lib
\* ProviderArchive::try_load + add_library + write
ExtendedArchive(buf, lib) == <<"A">> \o Tail(buf) \o lib

\* par.rs 133-184
handle_create(c) ==
    /\ pc = "idle"
    /\ runs' = runs + 1
    /\ cmd' = c
    /\ pc' = "returned"
    /\ IF ReadFile(c.binary) = None
       THEN /\ io' = <<IoEvent("open", c.binary, FALSE)>>
            /\ res' = Some(Err(IO_MSG))
            /\ UNCHANGED fs
       ELSE \E outcome \in {"keys_err", "library_err", "write"} :
            CASE outcome = "keys_err" ->
                   /\ io' = <<IoEvent("open", c.binary, TRUE)>>
                   /\ res' = Some(Err(KEYS_MSG))
                   /\ UNCHANGED fs
              [] outcome = "library_err" ->
                   /\ io' = <<IoEvent("open", c.binary, TRUE)>>
                   /\ res' = Some(Err(PAR_MSG))
                   /\ UNCHANGED fs
              [] OTHER ->
                   IF ~CanCreate(UnwrapOr(c.output, DefaultParOutput(c.binary)))
                   THEN \* the Err of File::create is printed and Ok(()) returned
                        /\ io' = <<IoEvent("open", c.binary, TRUE),
                                   IoEvent("create",
                                           UnwrapOr(c.output, DefaultParOutput(c.binary)),
                                           FALSE)>>
                        /\ res' = Some(Ok)
                        /\ UNCHANGED fs
                   ELSE \E failure \in WriteFailures(NewArchive(Unwrap(ReadFile(c.binary)))) :
                        /\ fs' = [fs EXCEPT
                                    ![UnwrapOr(c.output, DefaultParOutput(c.binary))] =
                                       Some(Written(NewArchive(Unwrap(ReadFile(c.binary))),
                                                    failure))]
                        /\ io' = <<IoEvent("open", c.binary, TRUE),
                                   IoEvent("create",
                                           UnwrapOr(c.output, DefaultParOutput(c.binary)),
                                           TRUE),
                                   IoEvent("write",
                                           UnwrapOr(c.output, DefaultParOutput(c.binary)),
                                           failure = None)>>
                        /\ res' = Some(IF failure = None THEN Ok ELSE Err(IO_MSG))
    /\ UNCHANGED <<registry, pushed, locals, net, done, process>>

\* par.rs 240-270
handle_insert(c) ==
    /\ pc = "idle"
    /\ runs' = runs + 1
    /\ cmd' = c
    /\ pc' = "returned"
    /\ IF ReadFile(c.archive) = None
       THEN /\ io' = <<IoEvent("open", c.archive, FALSE)>>
            /\ res' = Some(Err(IO_MSG))
            /\ UNCHANGED fs
       ELSE IF try_load(Unwrap(ReadFile(c.archive))) = "Err"
       THEN /\ io' = <<IoEvent("open", c.archive, TRUE)>>
            /\ res' = Some(Err(PAR_MSG))
            /\ UNCHANGED fs
       ELSE \E outcome \in {"keys_err", "library_err", "create_err", "write"} :
            CASE outcome = "keys_err" ->
                   /\ io' = <<IoEvent("open", c.archive, TRUE)>>
                   /\ res' = Some(Err(KEYS_MSG))
                   /\ UNCHANGED fs
              [] ReadFile(c.binary) = None ->
                   /\ io' = <<IoEvent("open", c.archive, TRUE),
                              IoEvent("open", c.binary, FALSE)>>
                   /\ res' = Some(Err(IO_MSG))
                   /\ UNCHANGED fs
              [] outcome = "library_err" ->
                   /\ io' = <<IoEvent("open", c.archive, TRUE),
                              IoEvent("open", c.binary, TRUE)>>
                   /\ res' = Some(Err(PAR_MSG))
                   /\ UNCHANGED fs
              [] outcome = "create_err" ->
                   \* `File::create(cmd.archive)?`: the file is there but
                   \* cannot be opened for writing
                   /\ io' = <<IoEvent("open", c.archive, TRUE),
                              IoEvent("open", c.binary, TRUE),
                              IoEvent("create", c.archive, FALSE)>>
                   /\ res' = Some(Err(IO_MSG))
                   /\ UNCHANGED fs
              [] OTHER ->
                   \E failure \in WriteFailures(ExtendedArchive(Unwrap(ReadFile(c.archive)),
                                                                Unwrap(ReadFile(c.binary)))) :
                   /\ fs' = [fs EXCEPT ![c.archive] =
                               Some(Written(ExtendedArchive(Unwrap(ReadFile(c.archive)),
                                                            Unwrap(ReadFile(c.binary))),
                                            failure))]
                   /\ io' = <<IoEvent("open", c.archive, TRUE),
                              IoEvent("open", c.binary, TRUE),
                              IoEvent("create", c.archive, TRUE),
                              IoEvent("write", c.archive, failure = None)>>
                   /\ res' = Some(IF failure = None THEN Ok ELSE Err(IO_MSG))
    /\ UNCHANGED <<registry, pushed, locals, net, done, process>>

ParCreate == \E c \in ParCreateCommands : handle_create(c)
ParInsert == \E c \in ParInsertCommands : handle_insert(c)

(***************************************************************************)
(* Sequences of invocations: the files and the registry outlive a process, *)
(* everything else is constructed afresh.  The `wash reg` command lines    *)
(* are a subset of those of Spec (anonymous, digest absent or "a"); `wash  *)
(* par create` and `wash par insert` may run in between.                   *)
(***************************************************************************)
SeqPullCommands ==
    {c \in PullCommands :
        /\ c.user = None /\ c.password = None
        /\ c.digest \in {None, Some(<<"a">>)}
        /\ c.output \in {None, Some("out.bin")}}

SeqPushCommands ==
    {c \in PushCommands :
        /\ c.user = None /\ c.password = None
        /\ c.config \in {None, Some("config.json")}}

\* the process has exited; the next one starts from fresh locals
Restart ==
    /\ pc = "exited"
    /\ runs < MaxRuns
    /\ pc' = "idle"
    /\ cmd' = NoCmd
    /\ image' = NoImage
    /\ image_data' = None
    /\ digest' = None
    /\ artifact' = << >>
    /\ config_buf' = << >>
    /\ kind' = None
    /\ auth' = None
    /\ net' = << >>
    /\ io' = << >>
    /\ done' = << >>
    /\ res' = None
    /\ exit_code' = None
    /\ stderr' = << >>
    /\ UNCHANGED <<persistent, runs>>

SeqStartPull == \E c \in SeqPullCommands : Start(c)
SeqStartPush == \E c \in SeqPushCommands : Start(c)

NextSeq ==
    \/ SeqStartPull
    \/ SeqStartPush
    \/ ParCreate
    \/ ParInsert
    \/ Restart
    \/ PullParse
    \/ PullGuard
    \/ PullTransport
    \/ PullVerify
    \/ PullClassify
    \/ PullWrite
    \/ PushParse
    \/ PushGuard
    \/ PushLoadConfig
    \/ PushLoadArtifact
    \/ PushClassify
    \/ PushTransport
    \/ MainExit
    \/ Panic

SpecSeq == Init /\ [][NextSeq]_vars

(***************************************************************************)
(* Properties                                                              *)
(***************************************************************************)
\* the guard of the current invocation has been evaluated
GuardActed == Len(done) >= 1 /\ pc \notin {"pull_guard", "push_guard"}

\* the handler returned the policy violation of its operation
PolicyViolation ==
    res = Some(Err(IF cmd.op = "pull" THEN PULL_LATEST_MSG ELSE PUSH_LATEST_MSG))

\* the tag the guard looks at is "latest": written, or (pull only) absent and defaulted
ResolvedLatest ==
    IF cmd.op = "pull" THEN image.tag \in {None, Some("latest")}
    ELSE image.tag = Some("latest")

\* C1: for pull and push, once the guard has been evaluated the handler has
\* returned the policy violation exactly when the resolved tag is "latest" and
\* allow_latest is not set; a rejection comes with no transport call and no
\* file read or written; a reference whose tag resolves and is not prohibited
\* passes the guard.
C1_PolicyGuard ==
    GuardActed =>
        /\ PolicyViolation <=> (ResolvedLatest /\ ~cmd.allow_latest)
        /\ PolicyViolation => (net = << >> /\ io = << >> /\ fs = InitFs)
        /\ ((cmd.op = "pull" \/ image.tag # None) /\ ~(ResolvedLatest /\ ~cmd.allow_latest))
              => (Len(done) >= 2 /\ done[2] = "guard")

C1_Witness ==
    /\ cmd.op = "pull" /\ pc = "returned" /\ image.tag = None /\ ~cmd.allow_latest
    /\ PolicyViolation /\ net = << >>

\* C2 (as claimed): in a pull whose transport call returned, once the digest
\* has been checked, an expected digest that after normalization differs from
\* what the registry reported (a digest or none) has made the pull fail with
\* the integrity mismatch, before classification and with no file touched.
C2_MismatchAlwaysFails ==
    (/\ cmd.op = "pull" /\ Len(done) >= 3 /\ pc # "pull_verify"
     /\ cmd.digest # None
     /\ ReformatDigest(cmd.digest) # Unwrap(image_data).digest)
        => (res = Some(Err(DIGEST_MSG)) /\ kind = None /\ io = << >> /\ fs = InitFs)

\* classification of `artifact` has been attempted
ClassifyActed ==
    /\ cmd.op \in {"pull", "push"}
    /\ Len(done) >= 4
    /\ pc \notin {"pull_classify", "push_classify"}

\* C3: validate_artifact returns Wasm whenever claims extraction yields a token,
\* whatever the archive loader says; Par exactly when extraction fails or yields
\* no token and the archive loads; "Unsupported artifact type" exactly when
\* extraction fails or yields no token and the archive does not load.
C3_ClassifyPriority ==
    ClassifyActed =>
        /\ (kind = Some("Wasm")) <=> (extract_claims(artifact) = "OkSome")
        /\ (kind = Some("Par")) <=>
              (extract_claims(artifact) \in {"OkNone", "Err"} /\ try_load(artifact) = "Ok")
        /\ (res = Some(Err(UNSUPPORTED_MSG))) <=>
              (extract_claims(artifact) \in {"OkNone", "Err"} /\ try_load(artifact) = "Err")
        /\ (kind = None) <=> (res = Some(Err(UNSUPPORTED_MSG)))

C3_Witness ==
    /\ ClassifyActed
    /\ extract_claims(artifact) = "OkSome" /\ try_load(artifact) = "Ok"
    /\ kind = Some("Wasm")

\* C4 (as claimed): when the process has exited, a successful invocation has
\* exit code 0 and every other one has printed `Error: <message>` and has exit
\* code 1.
C4_FailureExitsWithError ==
    pc = "exited" =>
        IF res = Some(Ok)
        THEN exit_code = Some(EXIT_SUCCESS)
        ELSE /\ exit_code = Some(EXIT_FAILURE)
             /\ Len(stderr) = 2 /\ stderr[1] = "Error: "

\* the reference of a push does not parse or has no tag
PushWithoutTag ==
    /\ cmd.op = "push"
    /\ \/ ParseReference(cmd.url) = None
       \/ Unwrap(ParseReference(cmd.url)).tag = None

\* C5: a push whose reference has no tag or does not parse never returns the
\* policy violation (nor any other handler result), for either value of
\* allow_latest: it stops in the parse or the guard, fails the process, and
\* opens no file and makes no transport call.
C5_PushNeedsTag ==
    PushWithoutTag =>
        /\ res # Some(Err(PUSH_LATEST_MSG))
        /\ res = None
        /\ pc \in {"push_parse", "push_guard", "panicked", "exited"}
        /\ pc = "exited" => (exit_code # Some(EXIT_SUCCESS) /\ stderr # << >>)
        /\ io = << >> /\ net = << >> /\ fs = InitFs

C5_Witness ==
    /\ PushWithoutTag /\ ParseReference(cmd.url) # None /\ ~cmd.allow_latest
    /\ pc = "exited" /\ exit_code # Some(EXIT_SUCCESS)

\* C6: a pull that succeeds on a tag to which an earlier invocation pushed with
\* success (nothing else writes to the registry) has written an output file
\* with exactly the bytes of the pushed artifact file, and has classified it
\* as the push did.
C6_RoundTrip ==
    (/\ cmd.op = "pull" /\ res = Some(Ok)
     /\ pushed[TransportTag(image)] # None)
        => /\ fs[Outfile] = Some(Unwrap(pushed[TransportTag(image)]).data)
           /\ kind = Some(Unwrap(pushed[TransportTag(image)]).kind)

C6_Witness ==
    /\ cmd.op = "pull" /\ res = Some(Ok)
    /\ pushed[TransportTag(image)] # None
    /\ Unwrap(pushed[TransportTag(image)]).kind = "Par"
    /\ fs[Outfile] = Some(Unwrap(pushed[TransportTag(image)]).data)

\* C7: in a push, "Unsupported artifact type" comes with no transport call; a
\* transport call is made at most once and only after parse, guard, config and
\* artifact loading and a successful classification of the bytes it carries;
\* and an error returned by the transport is the handler's result.
C7_PushOrder ==
    cmd.op = "push" =>
        /\ res = Some(Err(UNSUPPORTED_MSG)) => net = << >>
        /\ net # << >> =>
              /\ Len(net) = 1 /\ net[1].op = "push"
              /\ Len(done) >= 5
              /\ SubSeq(done, 1, 5) = <<"parse", "guard", "config", "artifact", "classify">>
              /\ ~(image.tag = Some("latest") /\ ~cmd.allow_latest)
              /\ net[1].image_data.layers[1].data = Unwrap(fs[cmd.artifact])
              /\ validate_artifact(net[1].image_data.layers[1].data) # None
              /\ ~net[1].result.ok => res = Some(net[1].result)

C7_Witness ==
    /\ cmd.op = "push" /\ pc = "returned"
    /\ net # << >> /\ ~net[1].result.ok /\ res = Some(Err(TRANSPORT_MSG))

\* the digest check of a pull has been evaluated
VerifyActed == cmd.op = "pull" /\ Len(done) >= 3 /\ pc # "pull_verify"

\* C8: in a pull without an expected digest the digest check passes whatever
\* the registry reported (a digest or none), and the pull goes on to
\* concatenation and classification.
C8_NoDigestPasses ==
    (VerifyActed /\ cmd.digest = None) =>
        /\ Len(done) >= 4 /\ done[4] = "verify"
        /\ res # Some(Err(DIGEST_MSG))
        /\ pc = "pull_classify" \/ ClassifyActed

C8_Witness ==
    /\ VerifyActed /\ cmd.digest = None /\ Unwrap(image_data).digest # None
    /\ ClassifyActed /\ kind # None

\* C9: the digest as reformatted by a pull starts with "sha256:", equals the
\* supplied digest when that already had the prefix, and is unchanged by
\* reformatting it again; and for a supplied digest X without the prefix the
\* verdict of the pull is the verdict that `sha256:X` gets against the same
\* reported digest.
C9_Normalization ==
    (VerifyActed /\ cmd.digest # None) =>
        /\ StartsWith(Unwrap(digest), Sha256Prefix)
        /\ StartsWith(Unwrap(cmd.digest), Sha256Prefix) => digest = cmd.digest
        /\ ReformatDigest(digest) = digest
        /\ ~StartsWith(Unwrap(cmd.digest), Sha256Prefix) =>
              ((res = Some(Err(DIGEST_MSG))) <=>
               ~DigestCheck(ReformatDigest(Some(Sha256Prefix \o Unwrap(cmd.digest))),
                            Unwrap(image_data).digest).ok)

C9_Witness ==
    /\ VerifyActed /\ cmd.digest = Some(<<"a">>)
    /\ Unwrap(image_data).digest = Some(Sha256Prefix \o <<"a">>)
    /\ Len(done) >= 4 /\ done[4] = "verify"

\* C10: in a pull, a file operation has been attempted or a file has changed
\* only if, in this order, the reference parsed, the guard passed, the
\* transport pull returned an image, the digest check passed and the
\* classification of the concatenated layers succeeded; otherwise every file,
\* the one at the output path included, is as it was.
C10_WriteLast ==
    cmd.op = "pull" =>
        /\ (io # << >> \/ fs # InitFs) =>
              /\ Len(done) >= 5
              /\ SubSeq(done, 1, 5) = <<"parse", "guard", "transport", "verify", "classify">>
              /\ ParseReference(cmd.url) # None
              /\ ~(ResolvedLatest /\ ~cmd.allow_latest)
              /\ Len(net) = 1 /\ net[1].result.ok
              /\ DigestCheck(digest, Unwrap(image_data).digest).ok
              /\ validate_artifact(artifact) # None
              /\ io # << >> /\ io[1].op = "create"
        /\ \A p \in Paths : fs[p] # InitFs[p] =>
              \E i \in 1..Len(io) : io[i] = IoEvent("create", p, TRUE)

C10_Witness ==
    /\ cmd.op = "pull" /\ pc = "returned" /\ res = Some(Ok)
    /\ cmd.output = None /\ kind = Some("Wasm")
    /\ InitFs["foo.wasm"] # None /\ fs["foo.wasm"] = Some(artifact)
    /\ fs["foo.wasm"] # InitFs["foo.wasm"]

\* C11: the package of a push's transport call has exactly one layer, with
\* the bytes of the artifact file, and no digest; its layer media type and the
\* config media type are the pair of the classified kind (wasm layer with
\* actor config, par layer with provider config); the config bytes are the
\* config file's contents when a config path was given and `{}` otherwise.
C11_PushPackage ==
    (cmd.op = "push" /\ net # << >>) =>
        /\ Len(net[1].image_data.layers) = 1
        /\ net[1].image_data.layers[1].data = Unwrap(fs[cmd.artifact])
        /\ net[1].image_data.digest = None
        /\ kind = validate_artifact(Unwrap(fs[cmd.artifact]))
        /\ kind \in {Some("Wasm"), Some("Par")}
        /\ kind = Some("Wasm") =>
              /\ net[1].image_data.layers[1].media_type = WASM_MEDIA_TYPE
              /\ net[1].config_media_type = WASM_CONFIG_MEDIA_TYPE
        /\ kind = Some("Par") =>
              /\ net[1].image_data.layers[1].media_type = PROVIDER_ARCHIVE_MEDIA_TYPE
              /\ net[1].config_media_type = PROVIDER_ARCHIVE_CONFIG_MEDIA_TYPE
        /\ net[1].config =
              IF cmd.config = None THEN <<"{", "}">> ELSE Unwrap(fs[Unwrap(cmd.config)])

C11_Witness ==
    /\ cmd.op = "push" /\ net # << >> /\ kind = Some("Par")
    /\ cmd.config = None /\ net[1].config = <<"{", "}">>
    /\ net[1].config_media_type = PROVIDER_ARCHIVE_CONFIG_MEDIA_TYPE

\* the credentials c follow from the --user and --password of the command line
CredentialsAsSupplied(c) ==
    IF cmd.user # None /\ cmd.password # None
    THEN c = [type |-> "Basic", user |-> cmd.user[1], password |-> cmd.password[1]]
    ELSE c = [type |-> "Anonymous"]

\* C12: in pull and in push alike, the credentials the handler resolved, and
\* those of every transport call, are Basic(user, password) exactly when both
\* a user and a password were supplied and Anonymous otherwise, also when
\* only one of the two was supplied.
C12_Credentials ==
    cmd.op \in {"pull", "push"} =>
        /\ auth # None => CredentialsAsSupplied(Unwrap(auth))
        /\ \A i \in 1..Len(net) :
              /\ CredentialsAsSupplied(net[i].auth)
              /\ (net[i].auth.type = "Basic") <=> (cmd.user # None /\ cmd.password # None)
              /\ net[i].op = cmd.op

C12_Witness ==
    /\ cmd.op = "push" /\ net # << >>
    /\ cmd.user # None /\ cmd.password = None
    /\ net[1].auth = [type |-> "Anonymous"]

====
